---- MODULE Spec2Model ----
(***************************************************************************)
(* Partition scheme headers of catalog/PartitionSchemeHeader.hpp:          *)
(* HashPartitionSchemeHeader and RangePartitionSchemeHeader, their         *)
(* construction and getPartitionId.                                        *)
(***************************************************************************)
EXTENDS Integers, Sequences, FiniteSets, TLC

\* ------------------------------------------------------------------------
\* Bounds of the model.
\* ------------------------------------------------------------------------
\* Largest number of partitions of a header built by the sequential model.
MaxP == 4
\* Largest number of partitioning attributes.
MaxK == 2
\* Attribute values are 0..MaxVal.
MaxVal == 2
\* Largest number of attribute values held by all range boundaries together.
MaxCells == 4
\* Width of std::size_t in the model (bits).
SizeBits == 2
\* The same bounds for the model with concurrent callers.
ConcMaxP == 3
ConcMaxK == 2
ConcMaxVal == 1
ConcMaxCells == 4

\* ------------------------------------------------------------------------
\* Values, tuples, std::size_t.
\* ------------------------------------------------------------------------
SizeMod == 2 ^ SizeBits

\* Unsigned arithmetic of std::size_t: results wrap modulo 2^width.
SizeT(x) == (x + SizeMod) % SizeMod

\* PartitionValues of a given length over the values 0..maxVal.
PartitionValues(n, maxVal) == [1..n -> 0..maxVal]

\* PartitionAttributeIds of a relation partitioned on its first k attributes.
AttributeIds(k) == [i \in 1..k |-> i - 1]

\* The types of the partitioning attributes (one integer type).
AttributeTypes(k) == [i \in 1..k |-> "kInt"]

\* ------------------------------------------------------------------------
\* External collaborators.
\* ------------------------------------------------------------------------
\* UncheckedComparator::compareTypedValues of the comparators built by
\* LessComparison / EqualComparison for an integer type.
compareTypedValues(comparator, left, right) ==
    IF comparator.op = "Less" THEN left < right ELSE left = right

\* LessComparison::Instance().makeUncheckedComparatorForTypes(type, type)
MakeLessComparator(type) == [op |-> "Less", type |-> type]

\* EqualComparison::Instance().makeUncheckedComparatorForTypes(type, type)
MakeEqualComparator(type) == [op |-> "Equal", type |-> type]

\* TypedValue::getHash of an integer value.
getHash(value) == SizeT(value + 1)

\* CombineHashes of utility/HashPair.hpp, order-sensitive.
CombineHashes(first_hash, second_hash) == SizeT(first_hash * 3 + second_hash)

RECURSIVE HashFrom(_, _, _)
HashFrom(key, i, hash) ==
    IF i > Len(key) THEN hash
    ELSE HashFrom(key, i + 1, CombineHashes(hash, getHash(key[i])))

\* HashCompositeKey of utility/CompositeHash.hpp.
HashCompositeKey(key) == HashFrom(key, 2, getHash(key[1]))

\* ------------------------------------------------------------------------
\* Headers.
\* ------------------------------------------------------------------------
NoHeader == [partition_type_ |-> "none"]

\* HashPartitionSchemeHeader::HashPartitionSchemeHeader
HashPartitionSchemeHeader(num_partitions, attributes) ==
    [partition_type_ |-> "kHash",
     num_partitions_ |-> num_partitions,
     partition_attribute_ids_ |-> attributes]

\* The fields RangePartitionSchemeHeader's constructor sets before it checks
\* the boundaries.
RangePartitionSchemeHeader(num_partitions, attributes, types, ranges) ==
    [partition_type_ |-> "kRange",
     num_partitions_ |-> num_partitions,
     partition_attribute_ids_ |-> attributes,
     partition_attr_types_ |-> types,
     partition_range_boundaries_ |-> ranges,
     less_unchecked_comparators_ |->
         [i \in 1..Len(types) |-> MakeLessComparator(types[i])],
     equal_unchecked_comparators_ |->
         [i \in 1..Len(types) |-> MakeEqualComparator(types[i])]]

IsRange(h) == h.partition_type_ = "kRange"
IsHash(h) == h.partition_type_ = "kHash"
NumAttrs(h) == Len(h.partition_attribute_ids_)

\* ------------------------------------------------------------------------
\* RangePartitionSchemeHeader::lessThan
\* ------------------------------------------------------------------------
\* Faulty variant of lessThanFrom: equal tuples compare as less (the test
\* for the last attribute is missing).
RECURSIVE lessThanFromOrEqual(_, _, _, _)
lessThanFromOrEqual(h, lhs, rhs, i) ==
    IF i > NumAttrs(h) THEN TRUE
    ELSE IF compareTypedValues(h.less_unchecked_comparators_[i], lhs[i], rhs[i])
         THEN TRUE
    ELSE IF compareTypedValues(h.equal_unchecked_comparators_[i], lhs[i], rhs[i])
         THEN lessThanFromOrEqual(h, lhs, rhs, i + 1)
    ELSE FALSE

\* Faulty variant of lessThanFrom: a greater attribute does not end the loop
\* (the final else branch is missing).
RECURSIVE lessThanFromSkipGreater(_, _, _, _)
lessThanFromSkipGreater(h, lhs, rhs, i) ==
    IF i > NumAttrs(h) THEN TRUE
    ELSE IF compareTypedValues(h.less_unchecked_comparators_[i], lhs[i], rhs[i])
         THEN TRUE
    ELSE IF compareTypedValues(h.equal_unchecked_comparators_[i], lhs[i], rhs[i])
            /\ i = NumAttrs(h)
         THEN FALSE
    ELSE lessThanFromSkipGreater(h, lhs, rhs, i + 1)

\* The loop of lessThan from attr_index (0-based in the source, i - 1 here).
RECURSIVE lessThanFrom(_, _, _, _)
lessThanFrom(h, lhs, rhs, i) ==
    IF i > NumAttrs(h) THEN TRUE
    ELSE IF compareTypedValues(h.less_unchecked_comparators_[i], lhs[i], rhs[i])
         THEN TRUE
    ELSE IF compareTypedValues(h.equal_unchecked_comparators_[i], lhs[i], rhs[i])
         THEN (IF i = NumAttrs(h) THEN FALSE ELSE lessThanFrom(h, lhs, rhs, i + 1))
    ELSE FALSE

lessThan(h, lhs, rhs) == lessThanFrom(h, lhs, rhs, 1)

\* lessThan without its DCHECKs, on tuples that may be shorter than the
\* attribute list: "undef" when the loop reads past the end of a tuple.
RECURSIVE lessThanUnchecked(_, _, _, _)
lessThanUnchecked(h, lhs, rhs, i) ==
    IF i > NumAttrs(h) THEN "true"
    ELSE IF i > Len(lhs) \/ i > Len(rhs) THEN "undef"
    ELSE IF compareTypedValues(h.less_unchecked_comparators_[i], lhs[i], rhs[i])
         THEN "true"
    ELSE IF compareTypedValues(h.equal_unchecked_comparators_[i], lhs[i], rhs[i])
         THEN (IF i = NumAttrs(h) THEN "false"
               ELSE lessThanUnchecked(h, lhs, rhs, i + 1))
    ELSE "false"

\* What a call of lessThan can produce: its result when both tuples have the
\* length of the attribute list; otherwise the DCHECK_EQ fails ("fault") in
\* builds that keep DCHECKs, and builds that drop them run the loop, whose
\* read past the end of a tuple is undefined.
lessThanOutcomes(h, lhs, rhs) ==
    IF Len(lhs) = NumAttrs(h) /\ Len(rhs) = NumAttrs(h)
    THEN {IF lessThan(h, lhs, rhs) THEN "true" ELSE "false"}
    ELSE LET r == lessThanUnchecked(h, lhs, rhs, 1)
         IN  {"fault"} \cup (IF r = "undef" THEN {"true", "false"} ELSE {r})

\* lessThan(value_of_attributes, partition_range_boundaries_[index]) for a
\* 0-based index: an index outside the vector is a read outside its storage,
\* undefined behaviour, which may fault or compare against whatever is there.
compareWithBoundary(h, values, index) ==
    IF index < Len(h.partition_range_boundaries_)
    THEN lessThanOutcomes(h, values, h.partition_range_boundaries_[index + 1])
    ELSE {"fault", "true", "false"}

\* ------------------------------------------------------------------------
\* RangePartitionSchemeHeader::checkPartitionRangeBoundaries
\* ------------------------------------------------------------------------
\* Faulty variant of checkPartitionRangeBoundaries: the loop over adjacent
\* boundaries starts one pair late.
checkPartitionRangeBoundariesFromSecond(h) ==
    LET b == h.partition_range_boundaries_
    IN  IF \A i \in 1..Len(b) : Len(b[i]) = NumAttrs(h)
        THEN \A part_id \in 2..(Len(b) - 1) : lessThan(h, b[part_id], b[part_id + 1])
        ELSE FALSE

\* TRUE when no CHECK of checkPartitionRangeBoundaries fails.
checkPartitionRangeBoundaries(h) ==
    LET b == h.partition_range_boundaries_
    IN  IF \A i \in 1..Len(b) : Len(b[i]) = NumAttrs(h)
        THEN \A part_id \in 1..(Len(b) - 1) : lessThan(h, b[part_id], b[part_id + 1])
        ELSE FALSE

\* ------------------------------------------------------------------------
\* The arithmetic of RangePartitionSchemeHeader::getPartitionId
\* ------------------------------------------------------------------------
\* end = partition_range_boundaries_.size() - 1
InitialEnd(h) == SizeT(Len(h.partition_range_boundaries_) - 1)

\* return num_partitions_ - 1
LastPartition(h) == SizeT(h.num_partitions_ - 1)

\* mid = start + ((end - start) >> 1)
Mid(start, end) == SizeT(start + (SizeT(end - start) \div 2))

\* Faulty variant of Narrow: end = mid - 1.
NarrowEndBelowMid(start, end, mid, less) ==
    IF less THEN [start |-> start, end |-> SizeT(mid - 1)]
    ELSE [start |-> SizeT(mid + 1), end |-> end]

\* Faulty variant of Narrow: the branches are exchanged.
NarrowExchanged(start, end, mid, less) ==
    IF less THEN [start |-> SizeT(mid + 1), end |-> end]
    ELSE [start |-> start, end |-> mid]

\* Faulty variant of Narrow: start = mid.
NarrowStartAtMid(start, end, mid, less) ==
    IF less THEN [start |-> start, end |-> mid]
    ELSE [start |-> mid, end |-> end]

\* One iteration of the loop body after the comparison with boundary mid.
Narrow(start, end, mid, less) ==
    IF less THEN [start |-> start, end |-> mid]
    ELSE [start |-> SizeT(mid + 1), end |-> end]

\* Faulty variant of HashGetPartitionId: the modulus is one too large.
HashGetPartitionIdWideModulus(h, values) ==
    HashCompositeKey(values) % (h.num_partitions_ + 1)

\* HashPartitionSchemeHeader::getPartitionId
HashGetPartitionId(h, values) == HashCompositeKey(values) % h.num_partitions_

\* The loop of RangePartitionSchemeHeader::getPartitionId run to its end by
\* one caller alone: every outcome it can have, a returned id or a fault.
RECURSIVE RangeSearchOutcomes(_, _, _, _)
RangeSearchOutcomes(h, values, start, end) ==
    IF start < end
    THEN LET mid == Mid(start, end)
         IN  UNION { IF less = "fault"
                     THEN {[pc |-> "fault", ret |-> 0]}
                     ELSE LET n == Narrow(start, end, mid, less = "true")
                          IN  RangeSearchOutcomes(h, values, n.start, n.end)
                     : less \in compareWithBoundary(h, values, mid) }
    ELSE {[pc |-> "done", ret |-> start]}

\* getPartitionId run from entry to return by one caller alone.
GetPartitionIdOutcomes(h, values) ==
    IF IsHash(h)
    THEN {[pc |-> "done", ret |-> HashGetPartitionId(h, values)]}
    ELSE UNION { CASE less = "fault" -> {[pc |-> "fault", ret |-> 0]}
                   [] less = "false" -> {[pc |-> "done", ret |-> LastPartition(h)]}
                   [] less = "true" -> RangeSearchOutcomes(h, values, 0, InitialEnd(h))
                 : less \in compareWithBoundary(h, values, InitialEnd(h)) }

\* ------------------------------------------------------------------------
\* State.
\* ------------------------------------------------------------------------
VARIABLES
    quickstep_debug,  \* whether the build defines QUICKSTEP_DEBUG
    hdr,              \* the header, NoHeader before its construction
    ctor,             \* the constructor call: its status and its arguments
    calls,            \* per caller, its call of getPartitionId
    lt_in,            \* three tuples given to lessThan
    lt_out            \* the results of lessThan on pairs of them

vars == <<quickstep_debug, hdr, ctor, calls, lt_in, lt_out>>

NotCalled == [status |-> "none"]

Idle == [pc |-> "idle", values |-> <<>>, start |-> 0, end |-> 0,
         read |-> <<>>, ret |-> 0]

NoFault == \A c \in DOMAIN calls : calls[c].pc # "fault"

\* ------------------------------------------------------------------------
\* Construction.
\* ------------------------------------------------------------------------
\* Boundary vectors a caller may pass for n boundaries over k attributes:
\* every vector of n tuples of length k, and those with one tuple a value
\* short or a value long.
WellSizedRanges(n, k, maxVal) == [1..n -> PartitionValues(k, maxVal)]

IllSizedRanges(n, k, maxVal) ==
    UNION { UNION { { [b EXCEPT ![i] = SubSeq(b[i], 1, k - 1)],
                      [b EXCEPT ![i] = Append(b[i], 0)] } : i \in 1..n }
            : b \in WellSizedRanges(n, k, maxVal) }

\* HashPartitionSchemeHeader(num_partitions, attributes)
ConstructHash(maxP, maxK) ==
    /\ ctor = NotCalled
    /\ \E num_partitions \in 1..maxP, k \in 1..maxK :
          /\ hdr' = HashPartitionSchemeHeader(num_partitions, AttributeIds(k))
          /\ ctor' = [status |-> "constructed", type |-> "kHash",
                      num_partitions |-> num_partitions, k |-> k, ranges |-> <<>>]
    /\ UNCHANGED <<quickstep_debug, calls, lt_in, lt_out>>

\* RangePartitionSchemeHeader(num_partitions, attributes, types, ranges):
\* with QUICKSTEP_DEBUG a failed CHECK of checkPartitionRangeBoundaries ends
\* the program and no header exists.
ConstructRangeWith(num_partitions, k, ranges) ==
    LET h == RangePartitionSchemeHeader(num_partitions, AttributeIds(k),
                                        AttributeTypes(k), ranges)
        args == [type |-> "kRange", num_partitions |-> num_partitions,
                 k |-> k, ranges |-> ranges]
    IN  IF quickstep_debug /\ ~checkPartitionRangeBoundaries(h)
        THEN /\ hdr' = NoHeader
             /\ ctor' = [status |-> "fatal"] @@ args
        ELSE /\ hdr' = h
             /\ ctor' = [status |-> "constructed"] @@ args

ConstructRange(maxP, maxK, maxVal, maxCells, illSized) ==
    /\ ctor = NotCalled
    /\ \E num_partitions \in 1..maxP, k \in 1..maxK :
          /\ (num_partitions - 1) * k <= maxCells
          /\ \E ranges \in WellSizedRanges(num_partitions - 1, k, maxVal)
                   \cup (IF illSized
                         THEN IllSizedRanges(num_partitions - 1, k, maxVal)
                         ELSE {}) :
                ConstructRangeWith(num_partitions, k, ranges)
    /\ UNCHANGED <<quickstep_debug, calls, lt_in, lt_out>>

\* ------------------------------------------------------------------------
\* getPartitionId.
\* ------------------------------------------------------------------------
\* A caller enters getPartitionId with a values vector of the length of the
\* attribute list.
Call(c, maxVal) ==
    /\ hdr # NoHeader
    /\ NoFault
    /\ calls[c].pc = "idle"
    /\ \E values \in PartitionValues(NumAttrs(hdr), maxVal) :
          calls' = [calls EXCEPT ![c] = [Idle EXCEPT !.pc = "entered",
                                                     !.values = values]]
    /\ UNCHANGED <<quickstep_debug, hdr, ctor, lt_in, lt_out>>

\* HashPartitionSchemeHeader::getPartitionId
HashCall(c) ==
    /\ IsHash(hdr)
    /\ NoFault
    /\ calls[c].pc = "entered"
    /\ calls' = [calls EXCEPT ![c].pc = "done",
                              ![c].ret = HashGetPartitionId(hdr, calls[c].values)]
    /\ UNCHANGED <<quickstep_debug, hdr, ctor, lt_in, lt_out>>

\* RangePartitionSchemeHeader::getPartitionId up to its loop: start and end
\* are set and the values are compared with the boundary at end.
RangeEntry(c) ==
    /\ IsRange(hdr)
    /\ NoFault
    /\ calls[c].pc = "entered"
    /\ LET end == InitialEnd(hdr)
       IN  \E less \in compareWithBoundary(hdr, calls[c].values, end) :
              calls' = [calls EXCEPT ![c] =
                  CASE less = "fault" ->
                         [@ EXCEPT !.pc = "fault", !.end = end, !.read = <<end>>]
                    [] less = "false" ->
                         [@ EXCEPT !.pc = "done", !.end = end, !.read = <<end>>,
                                   !.ret = LastPartition(hdr)]
                    [] less = "true" ->
                         [@ EXCEPT !.pc = "loop", !.start = 0, !.end = end,
                                   !.read = <<end>>]]
    /\ UNCHANGED <<quickstep_debug, hdr, ctor, lt_in, lt_out>>

\* Faulty variant of RangeLoop: start and end are shared by all callers
\* (as if they were static) instead of local to the call.
RangeLoopSharedBounds(c) ==
    /\ IsRange(hdr)
    /\ NoFault
    /\ calls[c].pc = "loop"
    /\ LET start == calls[c].start
           end == calls[c].end
           mid == Mid(start, end)
       IN  IF start < end
           THEN \E less \in compareWithBoundary(hdr, calls[c].values, mid) :
                   calls' = [d \in DOMAIN calls |->
                       IF less = "fault"
                       THEN (IF d = c
                             THEN [calls[d] EXCEPT !.pc = "fault", !.read = <<mid>>]
                             ELSE calls[d])
                       ELSE LET n == Narrow(start, end, mid, less = "true")
                            IN  IF d = c
                                THEN [calls[d] EXCEPT !.start = n.start, !.end = n.end,
                                                      !.read = <<mid>>]
                                ELSE IF calls[d].pc = "loop"
                                THEN [calls[d] EXCEPT !.start = n.start, !.end = n.end]
                                ELSE calls[d]]
           ELSE calls' = [calls EXCEPT ![c].pc = "done", ![c].read = <<>>,
                                       ![c].ret = start]
    /\ UNCHANGED <<quickstep_debug, hdr, ctor, lt_in, lt_out>>

\* One test of the loop condition: an iteration, or the return of start.
RangeLoop(c) ==
    /\ IsRange(hdr)
    /\ NoFault
    /\ calls[c].pc = "loop"
    /\ LET start == calls[c].start
           end == calls[c].end
           mid == Mid(start, end)
       IN  IF start < end
           THEN \E less \in compareWithBoundary(hdr, calls[c].values, mid) :
                   calls' = [calls EXCEPT ![c] =
                       IF less = "fault"
                       THEN [@ EXCEPT !.pc = "fault", !.read = <<mid>>]
                       ELSE LET n == Narrow(start, end, mid, less = "true")
                            IN  [@ EXCEPT !.start = n.start, !.end = n.end,
                                          !.read = <<mid>>]]
           ELSE calls' = [calls EXCEPT ![c].pc = "done", ![c].read = <<>>,
                                       ![c].ret = start]
    /\ UNCHANGED <<quickstep_debug, hdr, ctor, lt_in, lt_out>>

\* The caller takes the returned id.
Return(c) ==
    /\ NoFault
    /\ calls[c].pc = "done"
    /\ calls' = [calls EXCEPT ![c] = Idle]
    /\ UNCHANGED <<quickstep_debug, hdr, ctor, lt_in, lt_out>>

\* ------------------------------------------------------------------------
\* lessThan applied to given tuples.
\* ------------------------------------------------------------------------
LtUnset == [done |-> FALSE]

ApplyLessThan ==
    /\ lt_in # <<>>
    /\ lt_out = LtUnset
    /\ lt_out' = [done |-> TRUE,
                  aa |-> lessThan(hdr, lt_in[1], lt_in[1]),
                  ab |-> lessThan(hdr, lt_in[1], lt_in[2]),
                  ba |-> lessThan(hdr, lt_in[2], lt_in[1]),
                  bc |-> lessThan(hdr, lt_in[2], lt_in[3]),
                  ac |-> lessThan(hdr, lt_in[1], lt_in[3])]
    /\ UNCHANGED <<quickstep_debug, hdr, ctor, calls, lt_in>>

\* ------------------------------------------------------------------------
\* Specifications.
\* ------------------------------------------------------------------------
\* One caller; headers of every shape a caller can construct.
Init ==
    /\ quickstep_debug \in BOOLEAN
    /\ hdr = NoHeader
    /\ ctor = NotCalled
    /\ calls = [c \in {"t1"} |-> Idle]
    /\ lt_in = <<>>
    /\ lt_out = LtUnset

Next ==
    \/ ConstructHash(MaxP, MaxK)
    \/ ConstructRange(MaxP, MaxK, MaxVal, MaxCells, TRUE)
    \/ \E c \in DOMAIN calls : Call(c, MaxVal)
    \/ \E c \in DOMAIN calls : HashCall(c)
    \/ \E c \in DOMAIN calls : RangeEntry(c)
    \/ \E c \in DOMAIN calls : RangeLoop(c)
    \/ \E c \in DOMAIN calls : Return(c)

Spec == Init /\ [][Next]_vars

\* A caller inside getPartitionId keeps running.
FairSpec ==
    Spec /\ \A c \in {"t1"} : WF_vars(HashCall(c) \/ RangeEntry(c) \/ RangeLoop(c))

\* Two callers on one header.
InitConc ==
    /\ quickstep_debug \in BOOLEAN
    /\ hdr = NoHeader
    /\ ctor = NotCalled
    /\ calls = [c \in {"t1", "t2"} |-> Idle]
    /\ lt_in = <<>>
    /\ lt_out = LtUnset

NextConc ==
    \/ ConstructHash(ConcMaxP, ConcMaxK)
    \/ ConstructRange(ConcMaxP, ConcMaxK, ConcMaxVal, ConcMaxCells, FALSE)
    \/ \E c \in DOMAIN calls : Call(c, ConcMaxVal)
    \/ \E c \in DOMAIN calls : HashCall(c)
    \/ \E c \in DOMAIN calls : RangeEntry(c)
    \/ \E c \in DOMAIN calls : RangeLoop(c)
    \/ \E c \in DOMAIN calls : Return(c)

SpecConc == InitConc /\ [][NextConc]_vars

\* lessThan on three tuples of the length of the attribute list.
InitLess ==
    /\ quickstep_debug \in BOOLEAN
    /\ \E k \in 1..MaxK :
          /\ hdr = RangePartitionSchemeHeader(1, AttributeIds(k), AttributeTypes(k), <<>>)
          /\ ctor = [status |-> "constructed", type |-> "kRange",
                     num_partitions |-> 1, k |-> k, ranges |-> <<>>]
          /\ lt_in \in [1..3 -> PartitionValues(k, MaxVal)]
    /\ calls = [c \in {"t1"} |-> Idle]
    /\ lt_out = LtUnset

NextLess == ApplyLessThan

SpecLess == InitLess /\ [][NextLess]_vars

\* ------------------------------------------------------------------------
\* Notions the properties are stated with.
\* ------------------------------------------------------------------------
Boundaries == hdr.partition_range_boundaries_

\* Every boundary tuple has the length of the attribute list.
WellSized == \A i \in 1..Len(Boundaries) : Len(Boundaries[i]) = NumAttrs(hdr)

\* Lexicographic order of two tuples of one length, by its definition.
LexLess(lhs, rhs) ==
    \E i \in 1..Len(lhs) :
        /\ lhs[i] < rhs[i]
        /\ \A j \in 1..(i - 1) : lhs[j] = rhs[j]

\* b[0] < b[1] < ... < b[P-2]
StrictlyAscending ==
    \A i \in 1..(Len(Boundaries) - 1) : LexLess(Boundaries[i], Boundaries[i + 1])

\* A range header with at least one boundary, of well sized, ascending boundaries.
AscendingRange ==
    /\ IsRange(hdr)
    /\ hdr.num_partitions_ >= 2
    /\ WellSized
    /\ StrictlyAscending

\* The smallest 0-based m with values < b[m], or P - 1 when there is none.
LinearScan(values) ==
    LET S == {m \in 0..(Len(Boundaries) - 1) : LexLess(values, Boundaries[m + 1])}
    IN  IF S = {} THEN hdr.num_partitions_ - 1
        ELSE CHOOSE m \in S : \A n \in S : m <= n

Callers == DOMAIN calls

\* ------------------------------------------------------------------------
\* Properties.
\* ------------------------------------------------------------------------

\* C1: on every header (hash or range) with P >= 1 partitions and k >= 1
\* attributes, whose boundary tuples have length k, every call of
\* getPartitionId with k values returns, and returns an id in 0..P-1.
C1_IdInRange ==
    (hdr # NoHeader /\ (IsRange(hdr) => WellSized)) =>
        \A c \in Callers :
            /\ calls[c].pc # "fault"
            /\ calls[c].pc = "done" => calls[c].ret \in 0..(hdr.num_partitions_ - 1)

\* C2: on a range header with P >= 2 and strictly ascending boundaries the
\* returned id is the result of the linear scan: the smallest m with
\* values < b[m], or P-1 when there is none; it is 0 iff values < b[0], j
\* (0 < j < P-1) iff b[j-1] <= values < b[j], and P-1 iff values >= b[P-2].
C2_BinarySearchIsLinearScan ==
    AscendingRange =>
        \A c \in Callers :
            /\ calls[c].pc # "fault"
            /\ calls[c].pc = "done" =>
                  LET v == calls[c].values
                      id == calls[c].ret
                      P == hdr.num_partitions_
                  IN  /\ id = LinearScan(v)
                      /\ id = 0 <=> LexLess(v, Boundaries[1])
                      /\ \A j \in 1..(P - 2) :
                            id = j <=> (/\ ~LexLess(v, Boundaries[j])
                                        /\ LexLess(v, Boundaries[j + 1]))
                      /\ id = P - 1 <=> ~LexLess(v, Boundaries[P - 1])

C2_Witness ==
    /\ AscendingRange
    /\ hdr.num_partitions_ >= 4
    /\ \E c \in Callers :
          /\ calls[c].pc = "done"
          /\ calls[c].ret = 1
          /\ calls[c].start = 1

\* C3: on a range header with one partition (no boundary tuple) every call
\* of getPartitionId returns 0, does not fail and reads no boundary tuple.
C3_SinglePartitionRange ==
    (IsRange(hdr) /\ hdr.num_partitions_ = 1) =>
        \A c \in Callers :
            /\ calls[c].pc # "fault"
            /\ calls[c].read = <<>>
            /\ calls[c].pc = "done" => calls[c].ret = 0

\* C4: on a range header with strictly ascending boundaries, values equal to
\* boundary b[j] at every position get the id j + 1.
C4_BoundaryExactness ==
    (IsRange(hdr) /\ WellSized /\ StrictlyAscending) =>
        \A c \in Callers :
            calls[c].pc = "done" =>
                \A j \in 0..(hdr.num_partitions_ - 2) :
                    calls[c].values = Boundaries[j + 1] => calls[c].ret = j + 1

C4_Witness ==
    /\ AscendingRange
    /\ hdr.num_partitions_ >= 3
    /\ NumAttrs(hdr) >= 2
    /\ \E c \in Callers :
          /\ calls[c].pc = "done"
          /\ calls[c].values = Boundaries[1]
          /\ calls[c].ret = 1

C6_LessThanIsLexicographic ==
    lt_out.done =>
        LET a == lt_in[1]
            b == lt_in[2]
            c == lt_in[3]
        IN  /\ lt_out.aa = LexLess(a, a)
            /\ lt_out.ab = LexLess(a, b)
            /\ lt_out.ba = LexLess(b, a)
            /\ lt_out.bc = LexLess(b, c)
            /\ lt_out.ac = LexLess(a, c)
            /\ ~lt_out.aa
            /\ a = b => ~lt_out.ab
            /\ (\E i \in 1..Len(a) : /\ a[i] > b[i]
                                     /\ \A j \in 1..(i - 1) : a[j] = b[j])
                  => ~lt_out.ab
            /\ ~(lt_out.ab /\ lt_out.ba)
            /\ (lt_out.ab /\ lt_out.bc) => lt_out.ac
            /\ a # b => (lt_out.ab \/ lt_out.ba)

C6_Witness ==
    /\ lt_out.done
    /\ Len(lt_in[1]) >= 2
    /\ lt_in[1][1] = lt_in[2][1]
    /\ lt_out.ab
    /\ lt_out.bc

\* C7: on a hash header with P >= 1 partitions a call returns
\* HashCompositeKey(values) mod P; two calls with equal values return equal
\* ids; with P = 1 every call returns 0; no call fails.
C7_HashIsCompositeHashModP ==
    IsHash(hdr) =>
        /\ \A c \in Callers :
              /\ calls[c].pc # "fault"
              /\ calls[c].pc = "done" =>
                    /\ calls[c].ret = HashCompositeKey(calls[c].values) % hdr.num_partitions_
                    /\ hdr.num_partitions_ = 1 => calls[c].ret = 0
        /\ \A c1, c2 \in Callers :
              (/\ calls[c1].pc = "done"
               /\ calls[c2].pc = "done"
               /\ calls[c1].values = calls[c2].values)
              => calls[c1].ret = calls[c2].ret

C7_Witness ==
    /\ IsHash(hdr)
    /\ hdr.num_partitions_ >= 2
    /\ calls["t1"].pc = "done"
    /\ calls["t2"].pc = "done"
    /\ calls["t1"].values = calls["t2"].values
    /\ calls["t1"].ret # 0

\* C8: with QUICKSTEP_DEBUG, constructing a range header from boundaries
\* that do not all have length k or are not strictly ascending is fatal and
\* leaves no header; every range header that exists has boundary tuples of
\* length k with b[i] < b[j] for all pairs i < j.
C8_ValidatedConstruction ==
    (quickstep_debug /\ ctor.status # "none" /\ ctor.type = "kRange") =>
        LET r == ctor.ranges
            sized == \A i \in 1..Len(r) : Len(r[i]) = ctor.k
            valid == sized /\ \A i \in 1..(Len(r) - 1) : LexLess(r[i], r[i + 1])
        IN  /\ ~valid => (ctor.status = "fatal" /\ hdr = NoHeader)
            /\ IsRange(hdr) =>
                  /\ \A i \in 1..Len(Boundaries) : Len(Boundaries[i]) = NumAttrs(hdr)
                  /\ \A i, j \in 1..Len(Boundaries) :
                        i < j => LexLess(Boundaries[i], Boundaries[j])

C8_Witness ==
    /\ quickstep_debug
    /\ IsRange(hdr)
    /\ Len(Boundaries) >= 3
    /\ NumAttrs(hdr) >= 1

\* Once constructed, the header (type, partition count, attribute ids,
\* attribute types, boundaries, comparators) never changes.
C9_HeaderUnchanged == [][hdr # NoHeader => hdr' = hdr]_vars

\* A call that has ended, ended the way the same call can end alone.

C9_AsAlone ==
    \A c \in Callers :
        calls[c].pc \in {"done", "fault"} =>
            [pc |-> calls[c].pc, ret |-> calls[c].ret]
                \in GetPartitionIdOutcomes(hdr, calls[c].values)

\* C9: no call of getPartitionId changes the header, and under every
\* interleaving of concurrent calls each call ends the way it can end when
\* it runs alone on the same values.
C9_ConcurrentCallsIndependent == C9_HeaderUnchanged /\ []C9_AsAlone

C9_Witness ==
    /\ IsRange(hdr)
    /\ hdr.num_partitions_ >= 3
    /\ calls["t1"].pc = "loop"
    /\ calls["t2"].pc = "loop"
    /\ calls["t1"].start # calls["t2"].start
    /\ calls["t1"].values # calls["t2"].values

\* In the loop 0 <= start <= end <= P-2 and values < boundaries[end]; every
\* boundary index read is in 0..P-2; no call faults.
C10_LoopInvariant ==
    (IsRange(hdr) /\ hdr.num_partitions_ >= 2 /\ WellSized) =>
        \A c \in Callers :
            /\ calls[c].pc # "fault"
            /\ calls[c].read # <<>> => calls[c].read[1] \in 0..(hdr.num_partitions_ - 2)
            /\ calls[c].pc = "loop" =>
                  /\ 0 <= calls[c].start
                  /\ calls[c].start <= calls[c].end
                  /\ calls[c].end <= hdr.num_partitions_ - 2
                  /\ LexLess(calls[c].values, Boundaries[calls[c].end + 1])

\* A step of a call in the loop is an iteration, in which end - start
\* decreases, or the return of start when start = end.
C10_Decrease ==
    \A c \in Callers :
        (calls[c].pc = "loop" /\ IsRange(hdr) /\ hdr.num_partitions_ >= 2 /\ WellSized) =>
            /\ calls'[c].pc \in {"loop", "done"}
            /\ (calls'[c].pc = "loop" /\ calls'[c] # calls[c]) =>
                  calls'[c].end - calls'[c].start < calls[c].end - calls[c].start
            /\ calls'[c].pc = "done" =>
                  (calls[c].start = calls[c].end /\ calls'[c].ret = calls[c].start)

\* A call that has entered getPartitionId returns.
C10_Returns ==
    \A c \in {"t1"} :
        (calls[c].pc = "entered" /\ IsRange(hdr) /\ hdr.num_partitions_ >= 2 /\ WellSized)
            ~> (calls[c].pc = "done")

\* C10: on a range header with P >= 2 every call of getPartitionId
\* terminates: in the loop 0 <= start <= end <= P-2, every boundary index
\* read is in 0..P-2, values < boundaries[end], and end - start decreases in
\* every iteration until start = end, when start is returned.
C10_RangeSearchTerminates ==
    []C10_LoopInvariant /\ [][C10_Decrease]_vars /\ C10_Returns

C10_Witness ==
    /\ IsRange(hdr)
    /\ hdr.num_partitions_ >= 4
    /\ WellSized
    /\ \E c \in Callers :
          /\ calls[c].pc = "loop"
          /\ calls[c].start = calls[c].end
          /\ calls[c].start = 1

====
